---- MODULE Spec2Model ----
(***************************************************************************)
(* A model of web_api_scraper.py: the countdown calculator                 *)
(* (calculate_countdown), the scrape pipeline (scrape_stock_data) with its *)
(* retry loop, the item extraction and the time-bucketed cache, run by     *)
(* several concurrent request threads.                                     *)
(*                                                                         *)
(* Text is a sequence of one-character strings, a wall-clock time is a     *)
(* record [h, m, s], a datetime difference is a number of seconds.         *)
(***************************************************************************)
EXTENDS Integers, Sequences, FiniteSets, TLC

VARIABLES
    bucket,     \* int(time.time() // 300), the clock seen through line 67
    cache,      \* the module-level TTLCache (line 26), by bucket number: a key
                \* is looked up only during its own bucket, less than ttl = 300
                \* seconds after any store under it, and far fewer than
                \* maxsize = 100 keys are live, so no lookup meets an expired
                \* or evicted entry
    pc,         \* per request thread: "idle", "fetch" (in the loop), "done"
    attempt,    \* per thread: the loop variable of line 98
    key,        \* per thread: cache_key of line 67 (its bucket number)
    fetches,    \* per thread: calls of scraper.get made by this invocation
    result,     \* per thread: what scrape_stock_data returned
    wire,       \* the latest exchange with the upstream site: who asked, what came
    cd_pc,      \* calculate_countdown called on its own: "off", "call", "returned"
    cd_server_time, \* its argument: the Date header's time, or NoDate
    cd_local,   \* datetime.now() of its fallback
    cd_out      \* what the call produced

vars == <<bucket, cache, pc, attempt, key, fetches, result, wire,
          cd_pc, cd_server_time, cd_local, cd_out>>

\* ------------------------------------------------------------------ bounds

\* Concurrent request threads of the Flask server.
NumInv == 2
\* The clock runs over the 300-second buckets 0..MaxBucket.
MaxBucket == 1

\* -------------------------------------------------------------------- text

Digit == {"0", "1", "2", "3", "4", "5", "6", "7", "8", "9"}

DigitVal(c) ==
    CASE c = "0" -> 0 [] c = "1" -> 1 [] c = "2" -> 2 [] c = "3" -> 3
      [] c = "4" -> 4 [] c = "5" -> 5 [] c = "6" -> 6 [] c = "7" -> 7
      [] c = "8" -> 8 [] c = "9" -> 9

DigitChar(d) ==
    CASE d = 0 -> "0" [] d = 1 -> "1" [] d = 2 -> "2" [] d = 3 -> "3"
      [] d = 4 -> "4" [] d = 5 -> "5" [] d = 6 -> "6" [] d = 7 -> "7"
      [] d = 8 -> "8" [] d = 9 -> "9"

\* str(n) for n >= 0.
RECURSIVE Decimal(_)
Decimal(n) ==
    IF n < 10 THEN <<DigitChar(n)>>
    ELSE Decimal(n \div 10) \o <<DigitChar(n % 10)>>

\* The format spec :02d for n >= 0: zero-padded to width 2, never truncated.
Pad2(n) ==
    IF n < 10 THEN <<"0">> \o Decimal(n) ELSE Decimal(n)

\* str.strip() on spaces.
RECURSIVE lstrip(_)
lstrip(t) ==
    IF t # <<>> /\ Head(t) = " " THEN lstrip(Tail(t)) ELSE t

RECURSIVE rstrip(_)
rstrip(t) ==
    IF t # <<>> /\ t[Len(t)] = " " THEN rstrip(SubSeq(t, 1, Len(t) - 1)) ELSE t

strip(t) == rstrip(lstrip(t))

\* re.search(r'\d+', t): the first maximal run of digits, <<>> for no match.
RECURSIVE digit_run(_)
digit_run(t) ==
    IF t # <<>> /\ Head(t) \in Digit THEN <<Head(t)>> \o digit_run(Tail(t))
    ELSE <<>>

RECURSIVE re_search_digits(_)
re_search_digits(t) ==
    IF t = <<>> THEN <<>>
    ELSE IF Head(t) \in Digit THEN digit_run(t)
    ELSE re_search_digits(Tail(t))

\* int(s) of a digit string.
RECURSIVE int_of(_)
int_of(s) ==
    IF s = <<>> THEN 0
    ELSE 10 * int_of(SubSeq(s, 1, Len(s) - 1)) + DigitVal(s[Len(s)])

\* --------------------------------------------------------------- countdown

NoDate == [h |-> -1, m |-> -1, s |-> -1]

T(h, m, s) == [h |-> h, m |-> m, s |-> s]

SecondsOfDay(t) == t.h * 3600 + t.m * 60 + t.s

\* Whether the name timedelta resolves in the module: line 11 imports
\* datetime alone, and no other line binds it.
timedelta_defined == FALSE

\* timedelta.seconds: the difference normalised into 0 <= seconds < 86400
\* (a negative difference has days = -1).
td_seconds(d) == d % 86400

\* Lines 38-48 with the name resolved: the gear/seeds countdown text.
gear_seeds_countdown(now) ==
    LET minutes == now.m
        seconds == now.s
        start == now.h * 3600 + now.m * 60
        step == start + 60 * ((5 - (minutes % 5)) % 5)
        next_5_min == IF minutes % 5 = 0 /\ seconds = 0 THEN step + 300 ELSE step
        dist_5 == td_seconds(next_5_min - SecondsOfDay(now))
        m5 == dist_5 \div 60
        s5 == dist_5 % 60
    IN  Pad2(m5) \o <<"m", " ">> \o Pad2(s5) \o <<"s">>

\* Line 55: datetime.replace(hour=now.hour + 1, minute=0) raises ValueError
\* for an hour outside 0..23.
egg_replace_raises(now) == now.m >= 30 /\ now.h + 1 > 23

\* Lines 51-61: the egg countdown text.
egg_countdown(now) ==
    LET next_half_hour == IF now.m < 30 THEN now.h * 3600 + 30 * 60
                          ELSE (now.h + 1) * 3600
        dist_egg == td_seconds(next_half_hour - SecondsOfDay(now))
        h_egg == dist_egg \div 3600
        m_egg == (dist_egg % 3600) \div 60
        s_egg == dist_egg % 60
    IN  Pad2(h_egg) \o <<"h", " ">> \o Pad2(m_egg) \o <<"m", " ">>
            \o Pad2(s_egg) \o <<"s">>

Raised(e) == [exc |-> e, gear_seeds |-> <<>>, egg |-> <<>>]

\* calculate_countdown as it would run with the name timedelta bound.
calculate_countdown_resolving(server_time, local) ==
    LET now == IF server_time = NoDate THEN local ELSE server_time
    IN  IF egg_replace_raises(now) THEN Raised("ValueError")
        ELSE [exc |-> "none", gear_seeds |-> gear_seeds_countdown(now),
              egg |-> egg_countdown(now)]

\* calculate_countdown (lines 28-63). A Date header that does not parse
\* (NoDate: absent) falls back to the local clock. Line 41 evaluates the name
\* timedelta before anything is computed.
calculate_countdown(server_time, local) ==
    LET now == IF server_time = NoDate THEN local ELSE server_time
    IN  IF ~timedelta_defined THEN Raised("NameError")
        ELSE IF egg_replace_raises(now) THEN Raised("ValueError")
        ELSE [exc |-> "none", gear_seeds |-> gear_seeds_countdown(now),
              egg |-> egg_countdown(now)]

\* ------------------------------------------------------------------- pages

LowerAlpha == <<"a", "b", "c", "d", "e", "f", "g", "h", "i", "j", "k", "l", "m",
                "n", "o", "p", "q", "r", "s", "t", "u", "v", "w", "x", "y", "z">>
UpperAlpha == <<"A", "B", "C", "D", "E", "F", "G", "H", "I", "J", "K", "L", "M",
                "N", "O", "P", "Q", "R", "S", "T", "U", "V", "W", "X", "Y", "Z">>

\* str.upper().
upper(t) ==
    [k \in 1..Len(t) |->
        IF \E a \in 1..26 : LowerAlpha[a] = t[k]
        THEN UpperAlpha[CHOOSE a \in 1..26 : LowerAlpha[a] = t[k]]
        ELSE t[k]]

\* sub in t.
contains(sub, t) ==
    \E k \in 1..(Len(t) - Len(sub) + 1) : SubSeq(t, k, k + Len(sub) - 1) = sub

\* One <li> of a section's list: whether it has a <span>, the span's leading
\* text, whether the span holds a text-gray <span>, and that one's text.
Entry(name, qtext) == [span |-> TRUE, name |-> name, qspan |-> TRUE, qtext |-> qtext]
EntryNoSpan == [span |-> FALSE, name |-> <<>>, qspan |-> FALSE, qtext |-> <<>>]
EntryNoQuantity(name) == [span |-> TRUE, name |-> name, qspan |-> FALSE, qtext |-> <<>>]

\* One direct child <div> of the grid: whether it has an <h2>, the heading's
\* text, whether it has a space-y <ul>, and the list's bg-gray entries.
Section(title, entries) == [h2 |-> TRUE, title |-> title, ul |-> TRUE, entries |-> entries]

Widget == <<"W", "i", "d", "g", "e", "t">>
Hoe == <<"H", "o", "e">>
Carrot == <<"C", "a", "r", "r", "o", "t">>
GearTitle == <<"G", "e", "a", "r", " ", "S", "t", "o", "c", "k">>
EggTitle == <<" ", "E", "G", "G", " ", "S", "T", "O", "C", "K", " ">>
SeedsTitle == <<"S", "E", "E", "D", "S", " ", "S", "T", "O", "C", "K">>

\* A well-formed page: the grid, three headed sections, valid entries, names
\* repeating in every section.
PageValid ==
    [grid_class |-> TRUE, heading_div |-> TRUE,
     sections |-> <<
        Section(GearTitle, <<Entry(Widget, <<"x", "2">>), Entry(Hoe, <<"x", "1">>),
                             Entry(Widget, <<"x", "3">>)>>),
        Section(EggTitle, <<Entry(Widget, <<"x", "2">>), Entry(Widget, <<"x", "3">>)>>),
        Section(SeedsTitle, <<Entry(<<" ">> \o Carrot \o <<" ">>, <<"x", "1", "0">>),
                              Entry(Carrot, <<"5", " ", "x", "7">>)>>) >>]

\* The grid and three headed sections, none with an entry that parses.
PageEmpty ==
    [grid_class |-> TRUE, heading_div |-> TRUE,
     sections |-> <<
        Section(GearTitle, <<>>),
        Section(EggTitle, <<EntryNoSpan, EntryNoQuantity(Widget)>>),
        Section(SeedsTitle, <<Entry(Carrot, <<"x">>)>>) >>]

\* No grid class, no stock heading inside any <div>.
PageNoGrid == [grid_class |-> FALSE, heading_div |-> FALSE, sections |-> <<>>]

\* A grid <div> without child <div>s.
PageNoSections == [grid_class |-> TRUE, heading_div |-> FALSE, sections |-> <<>>]

Pages == {PageValid, PageEmpty, PageNoGrid, PageNoSections}

\* What scraper.get and raise_for_status (lines 102-103) can meet: a transport
\* failure, a timeout, a non-2xx status, or a 2xx response with its
\* Content-Type, its body's challenge marker and its page.
Failure(kind) == [kind |-> kind, html |-> FALSE, challenge |-> FALSE, page |-> PageNoGrid]
Ok(html, challenge, page) == [kind |-> "ok", html |-> html, challenge |-> challenge, page |-> page]

NonHtml == Ok(FALSE, FALSE, PageNoGrid)
Challenge == Ok(TRUE, TRUE, PageNoGrid)

Responses ==
    {Failure("ConnectionError"), Failure("Timeout"), Failure("HTTPError")}
        \cup {NonHtml, Challenge} \cup {Ok(TRUE, FALSE, p) : p \in Pages}

\* -------------------------------------------------------------- extraction

\* Lines 199-202: item_dict[name] summed, or inserted at the end (a dict
\* keeps insertion order).
add_item(item_dict, name, quantity) ==
    IF \E k \in 1..Len(item_dict) : item_dict[k].name = name
    THEN [k \in 1..Len(item_dict) |->
            IF item_dict[k].name = name
            THEN [name |-> name, quantity |-> item_dict[k].quantity + quantity]
            ELSE item_dict[k]]
    ELSE Append(item_dict, [name |-> name, quantity |-> quantity])

\* Lines 180-205, the loop over a section's entries: an entry without a
\* name span, a quantity span or a digit run is skipped.
RECURSIVE aggregate_items(_, _)
aggregate_items(items, item_dict) ==
    IF items = <<>> THEN item_dict
    ELSE LET item == Head(items)
             name == strip(item.name)
             quantity_match == re_search_digits(strip(item.qtext))
         IN  IF ~item.span \/ ~item.qspan \/ quantity_match = <<>>
             THEN aggregate_items(Tail(items), item_dict)
             ELSE aggregate_items(Tail(items),
                                  add_item(item_dict, name, int_of(quantity_match)))

\* Lines 176-206: stock_items of one section, whatever its title.
extract_items(section) == aggregate_items(section.entries, <<>>)

\* Lines 163-215, the loop over the sections: a section without a heading or
\* without a list is skipped; the title decides the category, GEAR first.
RECURSIVE fill_sections(_, _, _)
fill_sections(sections, stock_data, cd) ==
    IF sections = <<>> THEN stock_data
    ELSE LET section == Head(sections)
             title == upper(strip(section.title))
             stock_items == extract_items(section)
             filled ==
                IF ~section.h2 \/ ~section.ul THEN stock_data
                ELSE IF contains(<<"G", "E", "A", "R">>, title)
                THEN [stock_data EXCEPT !.gear_stock =
                        [items |-> stock_items, updates_in |-> cd.gear_seeds]]
                ELSE IF contains(<<"E", "G", "G">>, title)
                THEN [stock_data EXCEPT !.egg_stock =
                        [items |-> stock_items, updates_in |-> cd.egg]]
                ELSE IF contains(<<"S", "E", "E", "D", "S">>, title)
                THEN [stock_data EXCEPT !.seeds_stock =
                        [items |-> stock_items, updates_in |-> cd.gear_seeds]]
                ELSE stock_data
         IN  fill_sections(Tail(sections), filled, cd)

\* Lines 132-136.
empty_stock_data(cd) ==
    [gear_stock |-> [items |-> <<>>, updates_in |-> cd.gear_seeds],
     egg_stock |-> [items |-> <<>>, updates_in |-> cd.egg],
     seeds_stock |-> [items |-> <<>>, updates_in |-> cd.gear_seeds]]

\* ----------------------------------------------------------------- results

Err(msg, details) == [error |-> msg, details |-> details]

ErrNonHtml == Err("Invalid response from server.", "non-HTML content")
ErrCloudflare == Err("Blocked by Cloudflare verification.", "browser verification")
ErrNoGrid == Err("Stock grid not found on the page.", "page structure")
ErrNoSections == Err("No stock sections found in grid.", "page structure")
ErrNoStock == Err("No stock data found.", "page structure")
ErrFailed(e) == Err("Failed to fetch or parse data after multiple attempts.", e)

Pending == [pending |-> TRUE]
ReturnedNone == [none |-> TRUE]
NoEntry == [absent |-> TRUE]

IsError(r) == "error" \in DOMAIN r
IsSnapshot(r) == "gear_stock" \in DOMAIN r

\* What the try block (lines 99-227) does with one response: it raises, or
\* it returns a value, storing it in the cache (line 226) or not.
Raise(e) == [t |-> "raise", exc |-> e, value |-> Pending, store |-> FALSE]
Return(v, store) == [t |-> "return", exc |-> "none", value |-> v, store |-> store]

try_body(resp, server_time, local) ==
    IF resp.kind # "ok" THEN Raise(resp.kind)
    ELSE LET cd == calculate_countdown(server_time, local)
         IN  IF cd.exc # "none" THEN Raise(cd.exc)
             ELSE IF ~resp.html THEN Return(ErrNonHtml, FALSE)
             ELSE IF resp.challenge THEN Return(ErrCloudflare, FALSE)
             ELSE IF ~resp.page.grid_class /\ ~resp.page.heading_div
                  THEN Return(ErrNoGrid, FALSE)
             ELSE IF resp.page.sections = <<>> THEN Return(ErrNoSections, FALSE)
             ELSE LET stock_data ==
                          fill_sections(resp.page.sections, empty_stock_data(cd), cd)
                  IN  IF stock_data.gear_stock.items = <<>>
                         /\ stock_data.egg_stock.items = <<>>
                         /\ stock_data.seeds_stock.items = <<>>
                      THEN Return(ErrNoStock, FALSE)
                      ELSE Return(stock_data, TRUE)

\* ------------------------------------------------------------ the pipeline

Invocations == 1..NumInv
Buckets == 0..MaxBucket

\* Line 95.
max_retries == 3

\* The Date headers the site sends, and the local clock of the fallback.
ServerTimes == {NoDate, T(12, 58, 30)}
LocalTimes == {T(12, 0, 30)}

NoExchange == [inv |-> 0, resp |-> Failure("none"), exc |-> "none"]

\* The membership test of line 68 negated.
cache_hit_inverted(c, k) == c[k] = NoEntry

\* Line 68: cache_key in cache.
cache_hit(c, k) == c[k] # NoEntry

\* The except clause with the test of line 232 off by one.
except_clause_off_by_one(a, e) ==
    IF a < max_retries THEN Raise(e) ELSE Return(ErrFailed(e), FALSE)

\* The except clause storing the failure it returns under the cache key.
except_clause_caching(a, e) ==
    IF a < max_retries - 1 THEN Raise(e) ELSE Return(ErrFailed(e), TRUE)

\* Lines 229-243, the except clause of attempt number a (from 0) for the
\* exception e: it sleeps and goes round again, or returns the failure, which
\* it does not store.
except_clause(a, e) ==
    IF a < max_retries - 1 THEN Raise(e) ELSE Return(ErrFailed(e), FALSE)

\* One iteration of the loop (lines 98-243) on one response: the try block,
\* and the except clause for what it raises.
iteration(a, resp, server_time, local) ==
    LET out == try_body(resp, server_time, local)
    IN  IF out.t = "raise" THEN except_clause(a, out.exc) ELSE out

Init ==
    /\ bucket = 0
    /\ cache = [b \in Buckets |-> NoEntry]
    /\ pc = [i \in Invocations |-> "idle"]
    /\ attempt = [i \in Invocations |-> 0]
    /\ key = [i \in Invocations |-> 0]
    /\ fetches = [i \in Invocations |-> 0]
    /\ result = [i \in Invocations |-> Pending]
    /\ wire = NoExchange
    /\ cd_pc = "off"
    /\ cd_server_time = NoDate
    /\ cd_local = T(0, 0, 0)
    /\ cd_out = Raised("none")

\* The wall clock passes a multiple of 300 seconds.
Tick ==
    /\ bucket < MaxBucket
    /\ bucket' = bucket + 1
    /\ UNCHANGED <<cache, pc, attempt, key, fetches, result, wire,
                   cd_pc, cd_server_time, cd_local, cd_out>>

\* A request thread enters scrape_stock_data (lines 65-96): the cache key of
\* the current bucket, the cached value on a hit, the loop on a miss.
Start(i) ==
    /\ pc[i] \in {"idle", "done"}
    /\ key' = [key EXCEPT ![i] = bucket]
    /\ attempt' = [attempt EXCEPT ![i] = 0]
    /\ fetches' = [fetches EXCEPT ![i] = 0]
    /\ wire' = IF wire.inv = i THEN NoExchange ELSE wire
    /\ IF cache_hit(cache, bucket)
       THEN /\ pc' = [pc EXCEPT ![i] = "done"]
            /\ result' = [result EXCEPT ![i] = cache[bucket]]
       ELSE /\ pc' = [pc EXCEPT ![i] = "fetch"]
            /\ result' = [result EXCEPT ![i] = Pending]
    /\ UNCHANGED <<bucket, cache, cd_pc, cd_server_time, cd_local, cd_out>>

\* One iteration of the loop of lines 98-243 by thread i: the request, the
\* parse, the store and return, or the except clause; the loop running out
\* (line 98) ends the function without a return statement.
Attempt(i) ==
    /\ pc[i] = "fetch"
    /\ \E resp \in Responses, server_time \in ServerTimes, local \in LocalTimes :
         LET out == iteration(attempt[i], resp, server_time, local)
             raised == try_body(resp, server_time, local).exc
         IN  /\ fetches' = [fetches EXCEPT ![i] = @ + 1]
             /\ wire' = [inv |-> i, resp |-> resp, exc |-> raised]
             /\ IF out.t = "return"
                THEN /\ pc' = [pc EXCEPT ![i] = "done"]
                     /\ result' = [result EXCEPT ![i] = out.value]
                     /\ cache' = IF out.store
                                 THEN [cache EXCEPT ![key[i]] = out.value]
                                 ELSE cache
                     /\ UNCHANGED attempt
                ELSE IF attempt[i] + 1 < max_retries
                THEN /\ attempt' = [attempt EXCEPT ![i] = @ + 1]
                     /\ UNCHANGED <<pc, result, cache>>
                ELSE /\ pc' = [pc EXCEPT ![i] = "done"]
                     /\ result' = [result EXCEPT ![i] = ReturnedNone]
                     /\ UNCHANGED <<attempt, cache>>
    /\ UNCHANGED <<bucket, key, cd_pc, cd_server_time, cd_local, cd_out>>

Next ==
    \/ Tick
    \/ \E i \in Invocations : Start(i)
    \/ \E i \in Invocations : Attempt(i)

Spec == Init /\ [][Next]_vars

\* --------------------------------------------- calculate_countdown alone

\* The reference times the function is called with.
CountdownTimes ==
    {T(h, m, s) : h \in {0, 12, 23}, m \in 0..59, s \in {0, 1, 30, 59}}

InitCountdown ==
    /\ bucket = 0
    /\ cache = [b \in Buckets |-> NoEntry]
    /\ pc = [i \in Invocations |-> "idle"]
    /\ attempt = [i \in Invocations |-> 0]
    /\ key = [i \in Invocations |-> 0]
    /\ fetches = [i \in Invocations |-> 0]
    /\ result = [i \in Invocations |-> Pending]
    /\ wire = NoExchange
    /\ cd_pc = "call"
    /\ cd_server_time \in CountdownTimes \cup {NoDate}
    /\ cd_local \in {T(12, 0, 30), T(23, 45, 0)}
    /\ cd_out = Raised("none")

\* calculate_countdown(server_time) runs to its end.
CallCountdown ==
    /\ cd_pc = "call"
    /\ cd_out' = calculate_countdown(cd_server_time, cd_local)
    /\ cd_pc' = "returned"
    /\ UNCHANGED <<bucket, cache, pc, attempt, key, fetches, result, wire,
                   cd_server_time, cd_local>>

NextCountdown == CallCountdown

SpecCountdown == InitCountdown /\ [][NextCountdown]_vars

\* ------------------------------------------------------------------ claims

FailedMessage == "Failed to fetch or parse data after multiple attempts."

ValidResponse == Ok(TRUE, FALSE, PageValid)
EmptyResponse == Ok(TRUE, FALSE, PageEmpty)

Item(name, quantity) == [name |-> name, quantity |-> quantity]

\* C1: an invocation that misses the cache makes at most 3 fetch attempts;
\* after a failed attempt that is not the 3rd it is still in the loop; it
\* returns the 'Failed to fetch or parse data after multiple attempts.' error
\* only with 3 attempts made and with the detail of the 3rd attempt's
\* failure; it never ends without a result.
C1_ThreeAttemptsThenFailure ==
    \A i \in Invocations :
        /\ fetches[i] <= 3
        /\ pc[i] = "fetch" => fetches[i] < 3
        /\ pc[i] = "done" => result[i] # Pending /\ result[i] # ReturnedNone
        /\ (wire.inv = i /\ wire.exc # "none" /\ fetches[i] < 3) => pc[i] = "fetch"
        /\ (pc[i] = "done" /\ IsError(result[i]) /\ result[i].error = FailedMessage)
              => /\ fetches[i] = 3
                 /\ wire.inv = i => (wire.exc # "none" /\ result[i].details = wire.exc)

\* C1's case: three attempts, the third a timeout, and the failure returned
\* with the timeout as its detail.
C1_Witness ==
    \E i \in Invocations :
        /\ pc[i] = "done"
        /\ fetches[i] = 3
        /\ wire.inv = i
        /\ wire.resp = Failure("Timeout")
        /\ result[i] = ErrFailed("Timeout")

\* C2: once an attempt has met the well-formed page, the invocation has
\* returned a snapshot whose gear and seeds lists hold one item per distinct
\* name, in order of first occurrence, with the quantities summed.
C2_ValidPageYieldsSnapshot ==
    \A i \in Invocations :
        (wire.inv = i /\ wire.resp = ValidResponse)
            => /\ pc[i] = "done"
               /\ IsSnapshot(result[i])
               /\ result[i].gear_stock.items = <<Item(Widget, 5), Item(Hoe, 1)>>
               /\ result[i].seeds_stock.items = <<Item(Carrot, 15)>>

\* C3: once an attempt has met the page whose egg section lists Widget twice
\* (2 and 3), the invocation has returned a snapshot whose egg list holds
\* the two entries apart.
C3_EggEntriesKeptApart ==
    \A i \in Invocations :
        (wire.inv = i /\ wire.resp = ValidResponse)
            => /\ pc[i] = "done"
               /\ IsSnapshot(result[i])
               /\ Len(result[i].egg_stock.items) = 2
               /\ result[i].egg_stock.items = <<Item(Widget, 2), Item(Widget, 3)>>

\* The reference time of the call of calculate_countdown.
cd_now == IF cd_server_time = NoDate THEN cd_local ELSE cd_server_time

\* C4: calculate_countdown returns, for every reference time, the gear/seeds
\* countdown "MMm SSs" of the time left to the next 5-minute boundary, which
\* is never more than 5 minutes.
C4_GearCountdownToNextBoundary ==
    cd_pc = "returned" =>
        LET left == 300 - (SecondsOfDay(cd_now) % 300)
        IN  /\ cd_out.exc = "none"
            /\ left <= 300
            /\ cd_out.gear_seeds =
                  Pad2(left \div 60) \o <<"m", " ">> \o Pad2(left % 60) \o <<"s">>

\* C5: calculate_countdown returns, for every reference time of the day, the
\* egg countdown of the time left to the next :00 or :30 boundary, more than
\* 0 and at most 30 minutes, and does not fail at a rollover.
C5_EggCountdownToNextHalfHour ==
    cd_pc = "returned" =>
        LET left == 1800 - (SecondsOfDay(cd_now) % 1800)
        IN  /\ cd_out.exc = "none"
            /\ left > 0 /\ left <= 1800
            /\ cd_out.egg =
                  <<"0", "0", "h", " ">> \o Pad2(left \div 60) \o <<"m", " ">>
                      \o Pad2(left % 60) \o <<"s">>

\* C6: once an attempt has met the page with the grid and three headed
\* sections but no entry that parses, the invocation has returned the
\* 'No stock data found.' error.
C6_EmptyPageYieldsEmptyResultError ==
    \A i \in Invocations :
        (wire.inv = i /\ wire.resp = EmptyResponse)
            => /\ pc[i] = "done"
               /\ result[i] = ErrNoStock

\* C7 as stated: of the invocations in the loop at the same time for the same
\* bucket, at most one has called the upstream site.
C7_SingleFlight ==
    \A i, j \in Invocations :
        (i # j /\ pc[i] = "fetch" /\ pc[j] = "fetch" /\ key[i] = key[j])
            => ~(fetches[i] >= 1 /\ fetches[j] >= 1)

\* C7, amended: every invocation that finds no cache entry for its bucket
\* makes its own calls of the upstream site; one that has returned without
\* any call returned a snapshot.
C7_EveryMissFetches ==
    \A i \in Invocations :
        pc[i] = "done" => (fetches[i] >= 1 \/ IsSnapshot(result[i]))

\* C7's case: two invocations for the same bucket, neither finished, each
\* with calls of its own made.
C7_Witness ==
    \E i, j \in Invocations :
        /\ i # j
        /\ key[i] = key[j]
        /\ pc[i] = "fetch" /\ fetches[i] >= 1
        /\ pc[j] = "fetch" /\ fetches[j] >= 1

CacheHoldsSnapshots ==
    \A b \in Buckets :
        cache[b] # NoEntry =>
            /\ IsSnapshot(cache[b])
            /\ DOMAIN cache[b] = {"gear_stock", "egg_stock", "seeds_stock"}
            /\ \/ cache[b].gear_stock.items # <<>>
               \/ cache[b].egg_stock.items # <<>>
               \/ cache[b].seeds_stock.items # <<>>

ErrorReturnKeepsCache ==
    \A i \in Invocations :
        (pc[i] = "fetch" /\ pc'[i] = "done" /\ IsError(result'[i])) => cache' = cache

StartWithoutEntryFetches ==
    \A i \in Invocations :
        (pc[i] \in {"idle", "done"} /\ cache[bucket] = NoEntry /\ pc'[i] # pc[i])
            => (pc'[i] = "fetch" /\ fetches'[i] = 0)

\* C9: every cache entry is a snapshot with the three keys and a non-empty
\* item list; the step in which an invocation returns an error leaves the
\* cache as it was; an invocation that starts while its bucket has no entry
\* goes to fetch.
C9_CacheHoldsOnlySnapshots ==
    /\ []CacheHoldsSnapshots
    /\ [][ErrorReturnKeepsCache]_vars
    /\ [][StartWithoutEntryFetches]_vars

\* C9's case: an invocation has returned an error for the current bucket,
\* the bucket has no cache entry, and another invocation for the same bucket
\* is in the loop, its first request not yet made.
C9_Witness ==
    \E i, j \in Invocations :
        /\ i # j
        /\ pc[i] = "done" /\ IsError(result[i]) /\ key[i] = bucket
        /\ cache[bucket] = NoEntry
        /\ pc[j] = "fetch" /\ key[j] = bucket /\ fetches[j] = 0

====
